---- MODULE Spec2Model ----
(***************************************************************************)
(* Model of twitter_bookmark_exporter.py: the collection loop              *)
(* (_collect_all_bookmarks), the post extractor (_parse_tweet_element)     *)
(* and the serializer (_save_to_markdown, _write_tweet_to_markdown,        *)
(* _download_image) of TwitterBookmarksExporter.                           *)
(*                                                                         *)
(* Text is modelled as a sequence of integers.  A timestamp is the         *)
(* sequence of its character codes.  A URL is a sequence of tokens: a      *)
(* negative token is a delimiter the code looks for ('/status/', '/',      *)
(* '?', '&', '=', ':'), a positive token is a run of other characters.     *)
(* An optional value is a sequence of length 0 (None) or 1.                *)
(***************************************************************************)
EXTENDS Integers, Sequences, FiniteSets, TLC

VARIABLES
    tweets_per_file,          \* config, line 55
    include_images,           \* config, line 56
    scroll_retries,           \* config, line 59
    download_images_locally,  \* config, line 61
    tweets_collected,         \* self.tweets_collected, line 62
    tweets_seen,              \* local of _collect_all_bookmarks, line 143
    no_new_tweets_count,      \* line 144
    last_height,              \* line 145
    new_count,                \* line 152
    pc,                       \* position of the coroutine inside start()
    page_url,                 \* what the page currently shows
    files,                    \* output_dir: filename -> content
    image_files,              \* output_dir/images: the local filenames present
    written,                  \* the (file_number, filename, chunk) of the latest _save_to_markdown call
    now,                      \* the wall clock read by datetime.now()
    node,                     \* tweet_element handed to _parse_tweet_element, line 211
    parsed,                   \* what _parse_tweet_element returned for it
    tweet_elements            \* the articles the page holds for the pass, line 198

vars == <<tweets_per_file, include_images, scroll_retries, download_images_locally,
          tweets_collected, tweets_seen, no_new_tweets_count, last_height, new_count,
          pc, page_url, files, image_files, written, now, node, parsed, tweet_elements>>

config == <<tweets_per_file, include_images, scroll_retries, download_images_locally>>

-----------------------------------------------------------------------------
(* Bounds of the model *)

\* longest list of articles one extraction pass returns
MaxPass == 2
\* largest scroll_retries configured
MaxRetries == 2
\* largest tweets_per_file configured
MaxPerFile == 2
\* scroll heights range over 1..MaxHeight
MaxHeight == 2
\* the clock ranges over 0..MaxClock
MaxClock == 1
\* articles nested in one another in a node
MaxDepth == 3
\* longest collected list handed to the serializer on its own
MaxList == 3
\* longest list of articles a page holds for one pass on its own
MaxElements == 3

-----------------------------------------------------------------------------
(* Text *)

\* '/status/' (line 215, 221)
ST == -1
\* '/' (line 430)
SLASH == -2
\* '?' (line 221, 430)
QMARK == -3
\* '&' (line 246, 430)
AMP == -4
\* '=' (line 246, 430)
EQ == -5
\* ':' (line 430)
COLON == -6
\* '_' (line 430)
USCORE == -7
\* 'https://twitter.com' (line 282, 307)
TWITTER == -8
\* 'name' (line 246)
NAME == 900
\* 'large' (line 246)
LARGE == 901
\* 'youtube.com/embed/' (line 254)
YT_EMBED == 910
\* 'player.vimeo.com/video/' (line 255)
VIMEO_PLAYER == 911
\* 'youtu.be', 'youtube.com', 'vimeo.com', 'dailymotion.com' (line 272)
VideoDomains == {920, 921, 922, 923}
\* "unknown" (line 343, 362)
UNKNOWN == <<117, 110, 107, 110, 111, 119, 110>>
\* "Unknown" (line 225)
UNKNOWN_NAME == 930
\* "@unknown" (line 229)
AT_UNKNOWN == 931

Min(a, b) == IF a < b THEN a ELSE b

\* Python's string comparison a < b: lexicographic on the character codes
RECURSIVE StrLess(_, _)
StrLess(a, b) ==
    IF b = <<>> THEN FALSE
    ELSE IF a = <<>> THEN TRUE
    ELSE IF Head(a) # Head(b) THEN Head(a) < Head(b)
    ELSE StrLess(Tail(a), Tail(b))

\* s[:n]
Prefix(s, n) == SubSeq(s, 1, Min(n, Len(s)))

\* the indices of s that hold token t
Positions(s, t) == {i \in 1..Len(s) : s[i] = t}

SetMax(S) == CHOOSE x \in S : \A y \in S : y <= x
SetMin(S) == CHOOSE x \in S : \A y \in S : x <= y

\* s.split(t)[-1]
AfterLast(s, t) ==
    IF Positions(s, t) = {} THEN s
    ELSE SubSeq(s, SetMax(Positions(s, t)) + 1, Len(s))

\* s.split(t)[0]
BeforeFirst(s, t) ==
    IF Positions(s, t) = {} THEN s
    ELSE SubSeq(s, 1, SetMin(Positions(s, t)) - 1)

\* x in list
InSeq(x, s) == \E i \in 1..Len(s) : s[i] = x

RECURSIVE Concat(_)
Concat(ss) == IF ss = <<>> THEN <<>> ELSE Head(ss) \o Concat(Tail(ss))

\* tweet_url.split('/status/')[-1].split('?')[0]
TweetId(tweet_url) == BeforeFirst(AfterLast(tweet_url, ST), QMARK)

\* re.sub(r'&name=\w+', '&name=large', src)
HighQuality(src) ==
    [i \in 1..Len(src) |->
        IF i > 3 /\ src[i] > 0 /\ src[i-1] = EQ /\ src[i-2] = NAME /\ src[i-3] = AMP
        THEN LARGE ELSE src[i]]

\* re.sub(r'[?&=:]', '_', img_url.split('/')[-1])
Basename(img_url) ==
    LET last == AfterLast(img_url, SLASH)
    IN  [i \in 1..Len(last) |-> IF last[i] \in {QMARK, AMP, EQ, COLON} THEN USCORE ELSE last[i]]

\* datetime.fromisoformat(ts.replace('Z', '+00:00')).strftime('%Y-%m-%d %H:%M:%S')
FormatTime(ts) == SubSeq(ts, 1, 10) \o <<32>> \o SubSeq(ts, 12, 19)

-----------------------------------------------------------------------------
(* The page: what the driver's locators return *)

(***************************************************************************)
(* An article[data-testid="tweet"] node is a sequence of levels: level 1   *)
(* is the article itself, level k+1 is the article nested in level k's     *)
(* quote container div[role='link'][tabindex='0'].  Each level lists the   *)
(* elements of its own markup, in document order:                          *)
(*   links   href of each a[href*="/status/"]                              *)
(*   author  lines of each [data-testid="User-Name"] block                 *)
(*   text    lines of each [data-testid="tweetText"] block                 *)
(*   time    datetime attribute of each time element                       *)
(*   imgs    src of each img[src*="pbs.twimg.com/media"]                   *)
(*   iframes src of each iframe                                            *)
(*   cards   href of each [data-testid="card.wrapper"] a[href]             *)
(*   video   one entry per video element                                   *)
(*   raises  a driver call on this node raises while it is parsed          *)
(* A locator scoped to a node matches the node's descendants, so it sees   *)
(* the elements of the nested levels too.                                  *)
(***************************************************************************)
Level(links, time, imgs, iframes, cards, video, raises) ==
    [links |-> links, author |-> <<<<40, 41>>>>, text |-> <<<<50>>>>, time |-> time,
     imgs |-> imgs, iframes |-> iframes, cards |-> cards, video |-> video,
     raises |-> raises]

\* tweet_element.locator(selector).all(): the matches in the node and below it
Locate(article, k, field) ==
    Concat([j \in 1..(Len(article) - k + 1) |-> article[k + j - 1][field]])

\* "2024-01-03T10:00:00Z", "2024-01-01T09:00:00Z", "2024-01-02T08:00:00Z"
T3 == <<50,48,50,52,45,48,49,45,48,51,84,49,48,58,48,48,58,48,48,90>>
T1 == <<50,48,50,52,45,48,49,45,48,49,84,48,57,58,48,48,58,48,48,90>>
T2 == <<50,48,50,52,45,48,49,45,48,50,84,48,56,58,48,48,58,48,48,90>>

\* https://pbs.twimg.com/media/A?format=jpg&name=small and .../media/B
IMG_A == <<60, SLASH, 61, QMARK, 62, EQ, 63, AMP, NAME, EQ, 64>>
IMG_B == <<60, SLASH, 65>>
\* https://www.youtube.com/embed/x, https://player.vimeo.com/video/y, a card to youtu.be, a card elsewhere
IFRAME_YT == <<70, YT_EMBED, 71>>
IFRAME_VIMEO == <<70, VIMEO_PLAYER, 72>>
CARD_VIDEO == <<70, 920, SLASH, 73>>
CARD_OTHER == <<70, 74, SLASH, 75>>
\* an iframe that is no video embed
IFRAME_OTHER == <<70, 76>>

\* permalink /user/status/<n>
Permalink(n) == <<10, ST, n>>
\* /user/status/?s=11: nothing between '/status/' and the '?'
PERMALINK_NO_ID == <<10, ST, QMARK, 11>>
\* /user/status/1/photo/1: the photo link of the post of Permalink(1)
PERMALINK_PHOTO == <<10, ST, 1, SLASH, 12, SLASH, 1>>
\* https://pbs.twimg.com/media/A?format=jpg&name=medium
IMG_A_MEDIUM == <<60, SLASH, 61, QMARK, 62, EQ, 63, AMP, NAME, EQ, 66>>

----
(* _parse_tweet_element *)

\* lines 261-262, 273-274: append each value not yet in videos
RECURSIVE AppendNew(_, _)
AppendNew(videos, srcs) ==
    IF srcs = <<>> THEN videos
    ELSE AppendNew(IF InSeq(Head(srcs), videos) THEN videos ELSE Append(videos, Head(srcs)),
                   Tail(srcs))

\* lines 252-262: rule 1, the iframe embeds, one selector after the other
IframeVideos(iframes) ==
    LET yt(src) == InSeq(YT_EMBED, src)
        vimeo(src) == InSeq(VIMEO_PLAYER, src)
    IN  AppendNew(AppendNew(<<>>, SelectSeq(iframes, yt)), SelectSeq(iframes, vimeo))

\* lines 266-274: rule 2, the card links to a video host
CardVideos(cards) ==
    LET isVideo(href) == href # <<>> /\ \E i \in 1..Len(href) : href[i] \in VideoDomains
    IN  AppendNew(<<>>, SelectSeq(cards, isVideo))

\* lines 278-284: rule 3, a native video element stands for the post's own permalink
NativeVideos(video, tweet_url) ==
    IF video # <<>> THEN <<<<TWITTER>> \o tweet_url>> ELSE <<>>

\* line 265: "if not videos" before rule 2
Rule2Applies(videos) == videos = <<>>

\* line 277: "if not videos" before rule 3
Rule3Applies_Always(videos) == TRUE
Rule3Applies(videos) == videos = <<>>

\* lines 249-285: the fallback chain
ExtractVideos(iframes, cards, video, tweet_url) ==
    LET v1 == IframeVideos(iframes)
        v2 == IF Rule2Applies(v1) THEN v1 \o CardVideos(cards) ELSE v1
    IN  IF Rule3Applies(v2) THEN v2 \o NativeVideos(video, tweet_url) ELSE v2

\* lines 240-247
ExtractImages(imgs) == [i \in 1..Len(imgs) |-> HighQuality(imgs[i])]

\* line 297: the self-reference guard
AcceptQuote_NoGuard(temp_parsed_quote, tweet_id) == temp_parsed_quote # <<>>
AcceptQuote(temp_parsed_quote, tweet_id) ==
    temp_parsed_quote # <<>> /\ temp_parsed_quote[1].id # tweet_id

\* lines 211-315: the record for level k of an article, <<>> for None
RECURSIVE ParseTweetElement(_, _)
ParseTweetElement(article, k) ==
    LET links == Locate(article, k, "links")
        tweet_url == IF links = <<>> THEN <<>> ELSE Head(links)
        tweet_id == TweetId(tweet_url)
        authors == Locate(article, k, "author")
        author_parts == IF authors = <<>> THEN <<UNKNOWN_NAME>> ELSE Head(authors)
        texts == Locate(article, k, "text")
        times == Locate(article, k, "time")
        temp_parsed_quote ==
            IF k < Len(article) THEN ParseTweetElement(article, k + 1) ELSE <<>>
    IN  IF article[k].raises THEN <<>>
        ELSE IF tweet_url = <<>> THEN <<>>
        ELSE <<[id |-> tweet_id,
                author_name |-> author_parts[1],
                author_handle |-> IF Len(author_parts) > 1 THEN author_parts[2] ELSE AT_UNKNOWN,
                text |-> IF texts = <<>> THEN <<>> ELSE Head(texts),
                timestamp |-> IF times = <<>> THEN <<>> ELSE Head(times),
                url |-> <<TWITTER>> \o tweet_url,
                images |-> ExtractImages(Locate(article, k, "imgs")),
                videos |-> ExtractVideos(Locate(article, k, "iframes"),
                                         Locate(article, k, "cards"),
                                         Locate(article, k, "video"), tweet_url),
                quoted_tweet |-> IF AcceptQuote(temp_parsed_quote, tweet_id)
                                 THEN temp_parsed_quote ELSE <<>>]>>

\* lines 193-209: the records of the articles of a page, in page order
ExtractTweetsFromPage_StopsAtFailure(articles) ==
    LET none == {i \in 1..Len(articles) : ParseTweetElement(articles[i], 1) = <<>>}
        upto == IF none = {} THEN Len(articles) ELSE SetMin(none) - 1
    IN  Concat([i \in 1..upto |-> ParseTweetElement(articles[i], 1)])
ExtractTweetsFromPage(articles) ==
    Concat([i \in 1..Len(articles) |-> ParseTweetElement(articles[i], 1)])

-----------------------------------------------------------------------------
(* _save_to_markdown *)

\* line 339: the sort key
Key(t) == t.timestamp

\* the keys of s, greatest first
KeysDescending(s) ==
    LET keys == {Key(s[i]) : i \in 1..Len(s)}
    IN  [r \in 1..Cardinality(keys) |->
            CHOOSE k \in keys : Cardinality({g \in keys : StrLess(k, g)}) = r - 1]

\* the keys of s, least first
KeysAscending(s) ==
    LET keys == {Key(s[i]) : i \in 1..Len(s)}
    IN  [r \in 1..Cardinality(keys) |->
            CHOOSE k \in keys : Cardinality({g \in keys : StrLess(g, k)}) = r - 1]

\* s in reverse
Reverse(s) == [i \in 1..Len(s) |-> s[Len(s) + 1 - i]]

\* line 339: list.sort(key=lambda t: t.timestamp, reverse=True).  The sort is
\* stable, also under reverse=True: the elements come out by descending key
\* and those with equal keys in the order they had.
SortByTimestampDesc_Ascending(s) ==
    LET keys == KeysAscending(s)
    IN  Concat([r \in 1..Len(keys) |-> SelectSeq(s, LAMBDA t : Key(t) = keys[r])])
SortByTimestampDesc_TiesReversed(s) ==
    LET keys == KeysDescending(s)
    IN  Concat([r \in 1..Len(keys) |-> Reverse(SelectSeq(s, LAMBDA t : Key(t) = keys[r]))])
SortByTimestampDesc(s) ==
    LET keys == KeysDescending(s)
    IN  Concat([r \in 1..Len(keys) |-> SelectSeq(s, LAMBDA t : Key(t) = keys[r])])

\* lines 351, 353, 362, 363: ts[:10] if ts else "unknown"
DateStr(ts) == IF ts # <<>> THEN Prefix(ts, 10) ELSE UNKNOWN

\* the decimal digits of n
RECURSIVE Digits(_)
Digits(n) == IF n < 10 THEN <<n>> ELSE Append(Digits(n \div 10), n % 10)

\* line 364: {file_number:03d}
Pad3(n) ==
    LET d == Digits(n)
    IN  IF Len(d) >= 3 THEN d ELSE [i \in 1..(3 - Len(d)) |-> 0] \o d

\* line 356: range(0, len(self.tweets_collected), self.tweets_per_file)
ChunkStarts(n, per_file) == {i \in 0..(n - 1) : i % per_file = 0}

\* line 357: self.tweets_collected[i:i + self.tweets_per_file]
Chunk_DropsLast(tweets, i, per_file) == SubSeq(tweets, i + 1, Min(i + per_file, Len(tweets) - 1))
Chunk(tweets, i, per_file) == SubSeq(tweets, i + 1, Min(i + per_file, Len(tweets)))

\* line 358
FileNumber(i, per_file) == (i \div per_file) + 1

\* lines 361-366: bookmarks_{file_number:03d}_{first_date}_to_{last_date}.md
Filename(file_number, chunk) ==
    IF chunk # <<>>
    THEN <<Pad3(file_number), DateStr(chunk[1].timestamp), DateStr(chunk[Len(chunk)].timestamp)>>
    ELSE <<Pad3(file_number)>>

\* line 380: the aggregate metadata goes into the first file only
HasMetadata_Every(file_number, tweets) == tweets # <<>>
HasMetadata(file_number, tweets) == file_number = 1 /\ tweets # <<>>

\* lines 372-393: the lines before the posts of a file
FileHeader(file_number, stamp, tweets, chunk) ==
    <<<<"title", file_number>>, <<"exported", stamp>>>>
    \o (IF HasMetadata(file_number, tweets)
        THEN <<<<"total", Len(tweets)>>,
               <<"range", DateStr(tweets[Len(tweets)].timestamp), DateStr(tweets[1].timestamp)>>>>
        ELSE <<>>)
    \o <<<<"count", Len(chunk)>>, <<"rule">>>>

----
(* _download_image and _write_tweet_to_markdown *)

\* what page.goto(img_url) does: an OK response, a response that is not OK,
\* no response, or an exception
Outcomes == {"ok", "not_ok", "no_response", "exception"}

\* line 322: local_path is a pathlib.Path, write_bytes returns an int, and
\* awaiting an int raises TypeError after the bytes were written
WriteBytesAwaitRaises == TRUE

\* lines 319-330: the value _download_image returns
DownloadImage(outcome) == outcome = "ok" /\ ~WriteBytesAwaitRaises

\* lines 321-322: the bytes reach the local path
Persisted(outcome) == outcome = "ok"

\* 'qt' (line 482)
QT == 940

\* lines 430-431 and 481-482: the local filename of an image
LocalFilename(tweet_id, img_url, quoted) ==
    (IF quoted THEN <<QT, USCORE>> ELSE <<>>) \o tweet_id \o <<USCORE>> \o Basename(img_url)

\* lines 429-446 and 480-491: the line written for one image
ImageLine_SkipFailed(tweet_id, img_url, quoted, download, outcome) ==
    IF download
    THEN IF DownloadImage(outcome)
         THEN <<<<"image_local", quoted, LocalFilename(tweet_id, img_url, quoted)>>>>
         ELSE <<>>
    ELSE <<<<"image", quoted, img_url>>>>
ImageLine(tweet_id, img_url, quoted, download, outcome) ==
    IF download
    THEN IF DownloadImage(outcome)
         THEN <<<<"image_local", quoted, LocalFilename(tweet_id, img_url, quoted)>>>>
         ELSE <<<<"image_failed", quoted, img_url>>>>
    ELSE <<<<"image", quoted, img_url>>>>

\* lines 424-446 and 477-491: the images section of a post; oc[j] is the
\* outcome of the download of image j
ImagesSection(t, quoted, images_on, download, oc) ==
    IF images_on /\ t.images # <<>>
    THEN <<<<"images_header", quoted>>>>
         \o Concat([j \in 1..Len(t.images) |->
                       ImageLine(t.id, t.images[j], quoted, download,
                                 IF download THEN oc[j] ELSE "none")])
    ELSE <<>>

\* lines 449-456 and 493-497
VideosSection(t, quoted) ==
    IF t.videos # <<>>
    THEN <<<<"videos_header", quoted>>>>
         \o [j \in 1..Len(t.videos) |-> <<"video", quoted, t.videos[j]>>]
         \o <<<<"blank">>>>
    ELSE <<>>

\* lines 408-416 and 471-475
TimeLine(t, quoted) ==
    IF t.timestamp # <<>>
    THEN <<"time_link", quoted, FormatTime(t.timestamp), t.url>>
    ELSE <<"link", quoted, t.url>>

\* lines 400-503: the lines of one post; oc[1] holds the outcomes for the
\* post's own images, oc[2] those for the quoted post's images
WriteTweetToMarkdown(tweet, images_on, download, oc) ==
    <<<<"heading", tweet.author_name, tweet.author_handle>>, TimeLine(tweet, FALSE),
      <<"text", tweet.text>>>>
    \o ImagesSection(tweet, FALSE, images_on, download, oc[1])
    \o VideosSection(tweet, FALSE)
    \o (IF tweet.quoted_tweet # <<>>
        THEN LET qt == tweet.quoted_tweet[1]
             IN  <<<<"quoted_header">>, <<"quoted_heading", qt.author_name, qt.author_handle>>>>
                 \o [j \in 1..Len(qt.text) |-> <<"quoted_text", qt.text[j]>>]
                 \o <<<<"blank">>, TimeLine(qt, TRUE)>>
                 \o ImagesSection(qt, TRUE, images_on, download, oc[2])
                 \o VideosSection(qt, TRUE)
        ELSE <<>>)
    \o <<<<"rule">>>>

\* the download calls the serializer makes for one post: one per image of
\* the post, then one per image of its quoted post
OwnDownloads(tweet, images_on, download) ==
    IF images_on /\ download THEN Len(tweet.images) ELSE 0
QuotedDownloads(tweet, images_on, download) ==
    IF images_on /\ download /\ tweet.quoted_tweet # <<>>
    THEN Len(tweet.quoted_tweet[1].images) ELSE 0

\* the download calls a run of the serializer over tweets makes: <<p, q, j>>
\* is the call for image j of post p (q = FALSE) or of its quoted post (q = TRUE)
DownloadCalls(tweets, images_on, download) ==
    UNION {{<<p, FALSE, j>> : j \in 1..OwnDownloads(tweets[p], images_on, download)}
           \cup {<<p, TRUE, j>> : j \in 1..QuotedDownloads(tweets[p], images_on, download)}
           : p \in 1..Len(tweets)}

\* lines 432 and 483: the local path a download call writes to
DownloadTarget(tweets, call) ==
    LET owner == IF call[2] THEN tweets[call[1]].quoted_tweet[1] ELSE tweets[call[1]]
    IN  LocalFilename(owner.id, owner.images[call[3]], call[2])

\* lines 341-398: the (file_number, filename, chunk, content) of each file
\* _save_to_markdown writes for the sorted list, in writing order.  stamp is
\* the clock reading, outcomes[call] the outcome of a download call.
SaveToMarkdown(tweets, per_file, images_on, download, stamp, outcomes) ==
    LET oc(p) == <<[j \in 1..OwnDownloads(tweets[p], images_on, download) |->
                       outcomes[<<p, FALSE, j>>]],
                   [j \in 1..QuotedDownloads(tweets[p], images_on, download) |->
                       outcomes[<<p, TRUE, j>>]]>>
        nfiles == Cardinality(ChunkStarts(Len(tweets), per_file))
        start(n) == (n - 1) * per_file
    IN  [n \in 1..nfiles |->
           LET chunk == Chunk(tweets, start(n), per_file)
               file_number == FileNumber(start(n), per_file)
           IN  [file_number |-> file_number,
                filename |-> Filename(file_number, chunk),
                chunk |-> chunk,
                content |-> FileHeader(file_number, stamp, tweets, chunk)
                            \o Concat([q \in 1..Len(chunk) |->
                                  WriteTweetToMarkdown(chunk[q], images_on, download,
                                                       oc(start(n) + q))])]]

\* line 371: open(filepath, 'w') replaces the file of that name, the other
\* files of the directory stay
WriteFiles(old, entries) ==
    LET names == {entries[n].filename : n \in 1..Len(entries)}
        last(fn) == SetMax({n \in 1..Len(entries) : entries[n].filename = fn})
    IN  [fn \in (DOMAIN old) \cup names |->
            IF fn \in names THEN entries[last(fn)].content ELSE old[fn]]

-----------------------------------------------------------------------------
(* The feed *)

\* the articles the bookmarks timeline can render
Articles ==
    { \* id 1, an image with a size parameter and one without
      <<Level(<<Permalink(1)>>, <<T3>>, <<IMG_A, IMG_B>>, <<>>, <<>>, <<>>, FALSE)>>,
      \* id 2, an iframe embed, a video card and a native video
      <<Level(<<Permalink(2)>>, <<T1>>, <<>>, <<IFRAME_YT>>, <<CARD_VIDEO>>, <<1>>, FALSE)>>,
      \* id 3 under a permalink with a query string, quoting post 2
      <<Level(<<Permalink(3) \o <<QMARK, 11>>>>, <<T2>>, <<>>, <<>>, <<>>, <<>>, FALSE),
        Level(<<Permalink(2)>>, <<T1>>, <<>>, <<>>, <<>>, <<>>, FALSE)>>,
      \* no permalink
      <<Level(<<>>, <<T1>>, <<>>, <<>>, <<>>, <<>>, FALSE)>>,
      \* a node whose parsing raises
      <<Level(<<Permalink(5)>>, <<T1>>, <<>>, <<>>, <<>>, <<>>, TRUE)>> }

\* the lists of articles an extraction pass can find
RECURSIVE SeqsUpTo(_, _)
SeqsUpTo(S, n) ==
    IF n = 0 THEN {<<>>}
    ELSE LET shorter == SeqsUpTo(S, n - 1)
         IN  shorter \cup {Append(s, x) : s \in shorter, x \in S}

\* line 198: page.locator('article[data-testid="tweet"]').all()
ArticlesOnPage(url) == IF url = "bookmarks" THEN SeqsUpTo(Articles, MaxPass) ELSE {<<>>}

\* line 149: the lists an extraction pass over the timeline can return
TimelinePasses == {ExtractTweetsFromPage(articles) : articles \in ArticlesOnPage("bookmarks")}

\* line 149: the lists an extraction pass can return on the page shown
NewTweetsOn(url) == IF url = "bookmarks" THEN TimelinePasses ELSE {<<>>}

-----------------------------------------------------------------------------
(* _collect_all_bookmarks *)

\* the ids of a list of posts
IdsOf(tweets) == {tweets[i].id : i \in 1..Len(tweets)}

\* line 154
IsNew_Always(tweet, seen) == TRUE
IsNew(tweet, seen) == tweet.id \notin seen

\* lines 152-157: collected list, seen set and new_count after the for loop
RECURSIVE TrackUnique(_, _, _, _)
TrackUnique(collected, seen, count, extracted) ==
    IF extracted = <<>>
    THEN [collected |-> collected, seen |-> seen, new_count |-> count]
    ELSE LET tweet == Head(extracted)
         IN  IF IsNew(tweet, seen)
             THEN TrackUnique(Append(collected, tweet), seen \cup {tweet.id},
                              count + 1, Tail(extracted))
             ELSE TrackUnique(collected, seen, count, Tail(extracted))

\* line 167
GivesUp_Never(count, retries) == FALSE
GivesUp_Late(count, retries) == count > retries
GivesUp(count, retries) == count >= retries

\* line 189: the interval of the intermediate saves
CheckpointEvery == 500

\* tweets_per_file and scroll_retries when config.json does not set them
\* (lines 55 and 59)
DefaultPerFile == 100
DefaultRetries == 3

\* line 189
CheckpointDue(n) == n % CheckpointEvery = 0 /\ n > 0

-----------------------------------------------------------------------------
(* start(): the steps of the run *)

\* lines 54-68 and 143-145: a fresh exporter; the locals of the loop hold
\* the values they get on entry
Init ==
    /\ tweets_per_file \in 1..MaxPerFile
    /\ include_images \in BOOLEAN
    /\ scroll_retries \in 0..MaxRetries
    /\ download_images_locally \in BOOLEAN
    /\ tweets_collected = <<>>
    /\ tweets_seen = {}
    /\ no_new_tweets_count = 0
    /\ last_height = 0
    /\ new_count = 0
    /\ pc = "login"
    /\ page_url = "blank"
    /\ files = <<>>
    /\ image_files = {}
    /\ written = <<>>
    /\ now = 0
    /\ node = <<>>
    /\ parsed = <<>>
    /\ tweet_elements = <<>>

\* lines 111-126
EnsureLoggedIn ==
    /\ pc = "login"
    /\ page_url' = "home"
    /\ pc' = "navigate"
    /\ UNCHANGED <<config, node, parsed, tweet_elements, tweets_collected, tweets_seen, no_new_tweets_count, last_height,
                   new_count, files, image_files, written, now>>

\* lines 128-137 and 141-145
NavigateToBookmarks ==
    /\ pc = "navigate"
    /\ page_url' = "bookmarks"
    /\ tweets_seen' = {}
    /\ no_new_tweets_count' = 0
    /\ last_height' = 0
    /\ pc' = "extract"
    /\ UNCHANGED <<config, node, parsed, tweet_elements, tweets_collected, new_count, files, image_files, written, now>>

\* lines 165-169: the loop breaks only in the branch of a pass without new
\* posts
LoopEnds_AnyPass(added, count, retries) == GivesUp(count, retries)
LoopEnds(added, count, retries) == added = 0 /\ GivesUp(count, retries)

\* lines 152-171: the tracking of the unique posts of a pass and the
\* decision to stop
TrackPass(extracted) ==
    LET r == TrackUnique(tweets_collected, tweets_seen, 0, extracted)
        count == IF r.new_count = 0 THEN no_new_tweets_count + 1 ELSE 0
    IN  /\ tweets_collected' = r.collected
        /\ tweets_seen' = r.seen
        /\ new_count' = r.new_count
        /\ no_new_tweets_count' = count
        /\ pc' = IF LoopEnds(r.new_count, count, scroll_retries)
                 THEN "final_save" ELSE "scroll"

\* lines 147-171: an extraction pass over whatever the page shows, the
\* tracking of the unique posts and the decision to stop
ExtractAndTrack ==
    /\ pc = "extract"
    /\ \E extracted \in NewTweetsOn(page_url) : TrackPass(extracted)
    /\ UNCHANGED <<config, node, parsed, tweet_elements, last_height, page_url, files, image_files, written, now>>

\* lines 147-171: an extraction pass over a page that holds tweet_elements
ExtractPass ==
    /\ pc = "extract"
    /\ TrackPass(ExtractTweetsFromPage(tweet_elements))
    /\ UNCHANGED <<config, node, parsed, tweet_elements, last_height, page_url, files, image_files, written, now>>

\* lines 184-185: the counter after the height reading
AfterHeight_Ignored(count, new_height, height) == count
AfterHeight(count, new_height, height) == IF new_height = height THEN count + 1 ELSE count

\* lines 177-189: scroll, settle, read the height, decide on a checkpoint
ScrollAndMeasure ==
    /\ pc = "scroll"
    /\ \E new_height \in 1..MaxHeight :
         /\ no_new_tweets_count' = AfterHeight(no_new_tweets_count, new_height, last_height)
         /\ last_height' = new_height
    /\ pc' = IF CheckpointDue(Len(tweets_collected)) THEN "checkpoint" ELSE "extract"
    /\ UNCHANGED <<config, node, parsed, tweet_elements, tweets_collected, tweets_seen, new_count, page_url, files,
                   image_files, written, now>>

\* lines 332-398: one call of _save_to_markdown
Save ==
    IF tweets_collected = <<>>
    THEN /\ written' = <<>>
         /\ UNCHANGED <<tweets_collected, files, image_files, page_url, now>>
    ELSE \E stamp \in now..MaxClock :
         \E sorted \in {SortByTimestampDesc(tweets_collected)} :
         \E outcomes \in [DownloadCalls(sorted, include_images, download_images_locally)
                          -> Outcomes] :
         \E entries \in {SaveToMarkdown(sorted, tweets_per_file, include_images,
                                        download_images_locally, stamp, outcomes)} :
            /\ tweets_collected' = sorted
            /\ written' = [n \in 1..Len(entries) |->
                             [file_number |-> entries[n].file_number,
                              filename |-> entries[n].filename,
                              chunk |-> entries[n].chunk]]
            /\ files' = WriteFiles(files, entries)
            /\ image_files' = image_files \cup
                   {DownloadTarget(sorted, c) :
                       c \in {d \in DOMAIN outcomes : Persisted(outcomes[d])}}
            /\ page_url' = IF \E c \in DOMAIN outcomes : outcomes[c] # "exception"
                           THEN "image" ELSE page_url
            /\ now' = stamp

\* line 191
Checkpoint ==
    /\ pc = "checkpoint"
    /\ Save
    /\ pc' = "extract"
    /\ UNCHANGED <<config, node, parsed, tweet_elements, tweets_seen, no_new_tweets_count, last_height, new_count>>

\* line 85
FinalSave ==
    /\ pc = "final_save"
    /\ Save
    /\ pc' = "close"
    /\ UNCHANGED <<config, node, parsed, tweet_elements, tweets_seen, no_new_tweets_count, last_height, new_count>>

\* lines 87-93
Close ==
    /\ pc = "close"
    /\ pc' = "done"
    /\ page_url' = "closed"
    /\ UNCHANGED <<config, node, parsed, tweet_elements, tweets_collected, tweets_seen, no_new_tweets_count, last_height,
                   new_count, files, image_files, written, now>>

\* a run over a feed of fewer than CheckpointEvery posts: the checkpoint of
\* line 189 is never due
Next ==
    \/ EnsureLoggedIn
    \/ NavigateToBookmarks
    \/ ExtractAndTrack
    \/ ScrollAndMeasure
    \/ FinalSave
    \/ Close

Spec == Init /\ [][Next]_vars

----
(* A run that has collected one post less than the checkpoint interval *)

\* the posts collected so far: plain posts without a time element
BulkSize == CheckpointEvery - 1
BulkPosts ==
    [n \in 1..BulkSize |->
        ParseTweetElement(<<Level(<<Permalink(1000 + n)>>, <<>>, <<>>, <<>>, <<>>, <<>>,
                                  FALSE)>>, 1)[1]]

\* the loop of lines 147-191 at its top, after passes that collected
\* BulkPosts in this order (no pass left the count at a multiple of
\* CheckpointEvery, so no checkpoint has run yet)
InitCheckpoint ==
    /\ tweets_per_file = DefaultPerFile
    /\ include_images \in BOOLEAN
    /\ scroll_retries \in 1..MaxRetries
    /\ download_images_locally \in BOOLEAN
    /\ tweets_collected = BulkPosts
    /\ tweets_seen = {BulkPosts[n].id : n \in 1..BulkSize}
    /\ no_new_tweets_count = 0
    /\ last_height = 1
    /\ new_count = 1
    /\ pc = "extract"
    /\ page_url = "bookmarks"
    /\ files = <<>>
    /\ image_files = {}
    /\ written = <<>>
    /\ now = 0
    /\ node = <<>>
    /\ parsed = <<>>
    /\ tweet_elements = <<>>

NextCheckpoint ==
    \/ ExtractAndTrack
    \/ ScrollAndMeasure
    \/ Checkpoint
    \/ FinalSave
    \/ Close

SpecCheckpoint == InitCheckpoint /\ [][NextCheckpoint]_vars

----
(* _parse_tweet_element on one node *)

\* the markup of the node itself
OuterLevels ==
    {Level(links, <<T1>>, imgs, iframes, cards, video, raises) :
        links \in {<<>>, <<Permalink(1)>>, <<Permalink(1) \o <<QMARK, 11>>, Permalink(2)>>,
                   <<PERMALINK_NO_ID>>, <<PERMALINK_PHOTO>>},
        imgs \in {<<>>, <<IMG_B, IMG_B>>, <<IMG_A, IMG_A_MEDIUM>>},
        iframes \in {<<>>, <<IFRAME_OTHER>>, <<IFRAME_VIMEO, IFRAME_YT, IFRAME_YT>>},
        cards \in {<<>>, <<CARD_OTHER>>, <<CARD_OTHER, CARD_VIDEO, CARD_VIDEO>>},
        video \in {<<>>, <<1>>},
        raises \in BOOLEAN}

\* the markup of an article nested in a quote container
NestedLevels ==
    {Level(links, <<T2>>, <<>>, <<>>, <<>>, <<>>, FALSE) :
        links \in {<<>>, <<Permalink(1)>>, <<Permalink(2)>>}}
    \cup {Level(<<Permalink(2)>>, <<T2>>, <<>>, <<IFRAME_YT>>, <<>>, <<1>>, FALSE),
          Level(<<Permalink(1)>>, <<T2>>, <<>>, <<>>, <<CARD_VIDEO>>, <<>>, FALSE),
          Level(<<Permalink(2)>>, <<T2>>, <<>>, <<>>, <<>>, <<>>, TRUE)}

\* the nodes with at most MaxDepth articles nested in one another
Nodes ==
    {<<outer>> \o nested : outer \in OuterLevels, nested \in SeqsUpTo(NestedLevels, MaxDepth - 1)}

InitParse ==
    /\ tweets_per_file = DefaultPerFile
    /\ include_images = TRUE
    /\ scroll_retries = DefaultRetries
    /\ download_images_locally = FALSE
    /\ tweets_collected = <<>>
    /\ tweets_seen = {}
    /\ no_new_tweets_count = 0
    /\ last_height = 0
    /\ new_count = 0
    /\ pc = "parse"
    /\ page_url = "bookmarks"
    /\ files = <<>>
    /\ image_files = {}
    /\ written = <<>>
    /\ now = 0
    /\ node \in Nodes
    /\ parsed = <<>>
    /\ tweet_elements = <<>>

\* line 202: tweet_data = await self._parse_tweet_element(tweet_element, page)
ParseNode ==
    /\ pc = "parse"
    /\ parsed' = ParseTweetElement(node, 1)
    /\ pc' = "parsed"
    /\ UNCHANGED <<config, node, tweet_elements, tweets_collected, tweets_seen, no_new_tweets_count,
                   last_height, new_count, page_url, files, image_files, written, now>>

SpecParse == InitParse /\ [][ParseNode]_vars

----
(* _save_to_markdown on a collected list *)

\* posts a run can have collected: the posts of the feed, and posts that
\* share a timestamp with another or have none
SavePool ==
    TimelinePasses \cup
    {ParseTweetElement(<<Level(<<Permalink(n)>>, time, <<>>, <<>>, <<>>, <<>>, FALSE)>>, 1) :
        n \in 4..5, time \in {<<>>, <<T3>>}}

\* the lists of at most n posts with distinct ids
RECURSIVE ListsUpTo(_)
ListsUpTo(n) ==
    IF n = 0 THEN {<<>>}
    ELSE LET shorter == ListsUpTo(n - 1)
             longer == {s \o t : s \in shorter, t \in {u \in SavePool : Len(u) = 1}}
         IN  shorter \cup {l \in longer : Cardinality(IdsOf(l)) = Len(l)}

\* start() at line 85: the loop has ended with some list collected
InitSave ==
    /\ tweets_per_file \in 1..MaxPerFile
    /\ include_images \in BOOLEAN
    /\ scroll_retries = DefaultRetries
    /\ download_images_locally \in BOOLEAN
    /\ tweets_collected \in ListsUpTo(MaxList)
    /\ tweets_seen = IdsOf(tweets_collected)
    /\ no_new_tweets_count = DefaultRetries
    /\ last_height = 1
    /\ new_count = 0
    /\ pc = "final_save"
    /\ page_url = "bookmarks"
    /\ files = <<>>
    /\ image_files = {}
    /\ written = <<>>
    /\ now = 0
    /\ node = <<>>
    /\ parsed = <<>>
    /\ tweet_elements = <<>>

SpecSave == InitSave /\ [][FinalSave \/ Close]_vars

----
(* One extraction pass over a given page *)

\* the loop of lines 147-191 at its top: at most one post collected so far,
\* the page holds some articles of the timeline
InitPass ==
    /\ tweets_per_file = DefaultPerFile
    /\ include_images = TRUE
    /\ scroll_retries \in {0, DefaultRetries}
    /\ download_images_locally = FALSE
    /\ tweets_collected \in {l \in TimelinePasses : Len(l) <= 1}
    /\ tweets_seen = IdsOf(tweets_collected)
    /\ no_new_tweets_count = 0
    /\ last_height = 0
    /\ new_count = 0
    /\ pc = "extract"
    /\ page_url = "bookmarks"
    /\ files = <<>>
    /\ image_files = {}
    /\ written = <<>>
    /\ now = 0
    /\ node = <<>>
    /\ parsed = <<>>
    /\ tweet_elements \in SeqsUpTo(Articles, MaxElements)

NextPass ==
    \/ ExtractPass
    \/ ScrollAndMeasure
    \/ FinalSave
    \/ Close

SpecPass == InitPass /\ [][NextPass]_vars

----
(* start() when a step raises *)

\* lines 114-126: page.goto or the wait for the home timeline raises
LoginFails ==
    /\ pc = "login"
    /\ \E url \in {"blank", "login"} : page_url' = url
    /\ pc' = "failed"
    /\ UNCHANGED <<config, node, parsed, tweet_elements, tweets_collected, tweets_seen,
                   no_new_tweets_count, last_height, new_count, files, image_files, written, now>>

\* lines 133-136: page.goto or the wait for the first article raises
NavigateFails ==
    /\ pc = "navigate"
    /\ \E url \in {"home", "bookmarks"} : page_url' = url
    /\ pc' = "failed"
    /\ UNCHANGED <<config, node, parsed, tweet_elements, tweets_collected, tweets_seen,
                   no_new_tweets_count, last_height, new_count, files, image_files, written, now>>

\* line 198: the locator call of a pass raises, outside the handlers of
\* lines 201-207
ExtractFails ==
    /\ pc = "extract"
    /\ pc' = "failed"
    /\ UNCHANGED <<config, node, parsed, tweet_elements, tweets_collected, tweets_seen,
                   no_new_tweets_count, last_height, new_count, page_url, files, image_files,
                   written, now>>

\* lines 177-183: the scroll, the settle wait or the height reading raises
ScrollFails ==
    /\ pc = "scroll"
    /\ pc' = "failed"
    /\ UNCHANGED <<config, node, parsed, tweet_elements, tweets_collected, tweets_seen,
                   no_new_tweets_count, last_height, new_count, page_url, files, image_files,
                   written, now>>

\* lines 339-396: _save_to_markdown raises after the sort, with the first
\* done files written: at the open() of the next file (line 371), or while
\* the first post of the next file is written (line 396), its header being
\* on disk
SaveFails ==
    /\ pc \in {"checkpoint", "final_save"}
    /\ tweets_collected # <<>>
    /\ \E stamp \in now..MaxClock :
       \E sorted \in {SortByTimestampDesc(tweets_collected)} :
       \E outcomes \in [DownloadCalls(sorted, include_images, download_images_locally)
                        -> Outcomes] :
       \E entries \in {SaveToMarkdown(sorted, tweets_per_file, include_images,
                                      download_images_locally, stamp, outcomes)} :
       \E done \in 0..(Len(entries) - 1) :
       \E opened \in BOOLEAN :
          LET next == entries[done + 1]
              header == FileHeader(next.file_number, stamp, sorted, next.chunk)
              partial == [next EXCEPT !.content = header]
              reached == {c \in DOMAIN outcomes : c[1] <= done * tweets_per_file}
          IN  /\ tweets_collected' = sorted
              /\ written' = [n \in 1..done |->
                               [file_number |-> entries[n].file_number,
                                filename |-> entries[n].filename,
                                chunk |-> entries[n].chunk]]
              /\ files' = WriteFiles(files, SubSeq(entries, 1, done)
                                            \o (IF opened THEN <<partial>> ELSE <<>>))
              /\ image_files' = image_files \cup
                     {DownloadTarget(sorted, c) : c \in {d \in reached : Persisted(outcomes[d])}}
              /\ page_url' = IF \E c \in reached : outcomes[c] # "exception"
                             THEN "image" ELSE page_url
              /\ now' = stamp
    /\ pc' = "failed"
    /\ UNCHANGED <<config, node, parsed, tweet_elements, tweets_seen, no_new_tweets_count,
                   last_height, new_count>>

\* lines 89-93: how start() ends once the browser is closed
Outcome_Swallowed(p) == "done"
Outcome(p) == IF p = "failed" THEN "raised" ELSE "done"

\* lines 89-93: the handler logs and re-raises; the finally clause closes the
\* browser before the exception leaves start()
CloseAndRaise ==
    /\ pc = "failed"
    /\ pc' = Outcome(pc)
    /\ page_url' = "closed"
    /\ UNCHANGED <<config, node, parsed, tweet_elements, tweets_collected, tweets_seen,
                   no_new_tweets_count, last_height, new_count, files, image_files, written, now>>

\* a run from construction, or the loop one post short of the checkpoint
\* interval
InitFail ==
    \/ Init
    \/ InitCheckpoint /\ ~include_images /\ scroll_retries = 1

NextFail ==
    \/ EnsureLoggedIn
    \/ NavigateToBookmarks
    \/ ExtractAndTrack
    \/ ScrollAndMeasure
    \/ Checkpoint
    \/ FinalSave
    \/ Close
    \/ LoginFails
    \/ NavigateFails
    \/ ExtractFails
    \/ ScrollFails
    \/ SaveFails
    \/ CloseAndRaise

SpecFail == InitFail /\ [][NextFail]_vars

----
(* A run in which no driver call raises or hangs *)

\* start() is one coroutine: while no await hangs, its next step is taken
SpecLive == Init /\ [][Next]_vars /\ WF_vars(Next)

-----------------------------------------------------------------------------
(* Properties *)

InLoop(p) == p \in {"extract", "scroll", "checkpoint"}
AfterLoop(p) == p \in {"final_save", "close", "done"}

\* C1: after any sequence of loop iterations, with checkpoints in between,
\* tweets_collected never holds two posts with the same id.
C1_NoDuplicateIds == Cardinality(IdsOf(tweets_collected)) = Len(tweets_collected)

\* C1 witness: after a checkpoint wrote files, a later pass over the timeline
\* added nothing to a list that holds every post of the feed.
C1_Witness ==
    /\ pc = "scroll" /\ new_count = 0 /\ page_url = "bookmarks"
    /\ files # <<>>
    /\ Len(tweets_collected) = BulkSize + 3

\* C2 as stated: whenever an increment takes the counter to scroll_retries or
\* above, the loop stops: no further extraction pass, scroll or checkpoint.
C2_Original ==
    [][(no_new_tweets_count' > no_new_tweets_count /\ no_new_tweets_count' >= scroll_retries)
        => ~InLoop(pc')]_vars

\* C2 amended: the loop stops exactly when a pass adds no post and the
\* counter, incremented for it, is at scroll_retries or above; the increment
\* for an unchanged height never stops it; after the stop no post is added
\* and no pass runs.
C2_Amended ==
    [][/\ pc = "extract" =>
            ((pc' = "final_save") <=>
                (tweets_collected' = tweets_collected
                 /\ no_new_tweets_count' = no_new_tweets_count + 1
                 /\ no_new_tweets_count' >= scroll_retries))
       /\ pc = "scroll" => InLoop(pc')
       /\ AfterLoop(pc) => (AfterLoop(pc') /\ IdsOf(tweets_collected') = IdsOf(tweets_collected))]_vars

\* C2 witness: the unchanged-height increment took the counter to the
\* threshold and the loop is about to run another extraction pass.
C2_Witness ==
    /\ pc = "extract" /\ scroll_retries >= 1 /\ no_new_tweets_count >= scroll_retries
    /\ tweets_collected # <<>>

\* the id the permalink of level k of a node resolves to, <<>> without a permalink
NodeLinks(article, k) == Locate(article, k, "links")
NodeId(article, k) ==
    IF NodeLinks(article, k) = <<>> THEN <<>>
    ELSE BeforeFirst(AfterLast(Head(NodeLinks(article, k)), ST), QMARK)

\* every quoted post of a record, at every nesting level, has an id other
\* than the id of the post that holds it
RECURSIVE QuotesDiffer(_)
QuotesDiffer(post) ==
    \/ post.quoted_tweet = <<>>
    \/ /\ post.quoted_tweet[1].id # post.id
       /\ QuotesDiffer(post.quoted_tweet[1])

\* C3: in every record _parse_tweet_element returns, at every nesting level,
\* a quoted_tweet has an id other than its container's; and a nested article
\* whose permalink resolves to the id of the outer post leaves quoted_tweet
\* None.
C3_QuoteGuard ==
    (pc = "parsed" /\ parsed # <<>>) =>
        /\ QuotesDiffer(parsed[1])
        /\ (Len(node) >= 2 /\ NodeId(node, 2) = NodeId(node, 1))
                => parsed[1].quoted_tweet = <<>>

\* C3 witness: a node of three nested articles, the second one under the
\* permalink of the first, was parsed into a record without quoted_tweet.
C3_Witness ==
    /\ pc = "parsed" /\ parsed # <<>>
    /\ Len(node) = 3
    /\ NodeLinks(node, 2) # <<>> /\ ~node[2].raises
    /\ NodeId(node, 2) = NodeId(node, 1)
    /\ parsed[1].quoted_tweet = <<>>

\* the members of a list
Range(s) == {s[i] : i \in 1..Len(s)}

\* C7: the videos of a record come from the first rule that finds any: the
\* iframe embeds; without them the card links to a video host; without both,
\* and with a video element, the post's own permalink.
C7_VideoFallback ==
    (pc = "parsed" /\ parsed # <<>>) =>
        LET embeds == {src \in Range(Locate(node, 1, "iframes")) :
                          YT_EMBED \in Range(src) \/ VIMEO_PLAYER \in Range(src)}
            hosted == {href \in Range(Locate(node, 1, "cards")) :
                          Range(href) \cap VideoDomains # {}}
            native == Locate(node, 1, "video") # <<>>
            videos == parsed[1].videos
        IN  /\ embeds # {} => Range(videos) = embeds
            /\ (embeds = {} /\ hosted # {}) => Range(videos) = hosted
            /\ (embeds = {} /\ hosted = {} /\ native) => videos = <<parsed[1].url>>
            /\ (embeds = {} /\ hosted = {} /\ ~native) => videos = <<>>

\* C7 witness: a node with iframe embeds, a video card and a video element was
\* parsed.
C7_Witness ==
    /\ pc = "parsed" /\ parsed # <<>>
    /\ IFRAME_YT \in Range(node[1].iframes)
    /\ CARD_VIDEO \in Range(node[1].cards)
    /\ node[1].video # <<>>
    /\ Len(parsed[1].videos) = 2

\* where the post with this id stands in a list
PositionOf(tweets, id) == CHOOSE k \in 1..Len(tweets) : tweets[k].id = id

\* C4: _save_to_markdown leaves the list ordered by timestamp, greatest first
\* under string comparison; posts with equal timestamps keep the order they
\* had before the call; posts without a timestamp come after all others.
C4_SortedStable ==
    [][pc = "final_save" =>
        LET before == tweets_collected
            after == tweets_collected'
        IN  /\ Len(after) = Len(before)
            /\ IdsOf(after) = IdsOf(before)
            /\ \A k \in 1..Len(before) : after[PositionOf(after, before[k].id)] = before[k]
            /\ \A i, j \in 1..Len(after) :
                 i < j => ~StrLess(after[i].timestamp, after[j].timestamp)
            /\ \A i, j \in 1..Len(before) :
                 (i < j /\ before[i].timestamp = before[j].timestamp)
                     => PositionOf(after, before[i].id) < PositionOf(after, before[j].id)
            /\ \A i, j \in 1..Len(after) :
                 (after[i].timestamp = <<>> /\ after[j].timestamp # <<>>) => j < i]_vars

\* C4 witness: a saved list of three posts, two of them with the same
\* timestamp, the one the feed numbers higher first, and one without a
\* timestamp.
C4_Witness ==
    /\ pc = "close" /\ files # <<>>
    /\ Len(tweets_collected) = 3
    /\ tweets_collected[1].timestamp = T3 /\ tweets_collected[1].id = <<5>>
    /\ tweets_collected[2].timestamp = T3 /\ tweets_collected[2].id = <<1>>
    /\ tweets_collected[3].timestamp = <<>>

\* the permalinks of the posts a file renders, in order
IsPostLink(line) == line[1] \in {"time_link", "link"} /\ ~line[2]
PostUrlsIn(content) ==
    LET links == SelectSeq(content, IsPostLink)
    IN  [k \in 1..Len(links) |-> links[k][Len(links[k])]]

\* C5: for a non-empty list and tweets_per_file >= 1 the chunks written, taken
\* in file-number order 1, 2, ..., concatenate to the sorted list; every chunk
\* but the last holds tweets_per_file posts, the last from 1 to
\* tweets_per_file; each file renders the posts of its chunk.
C5_ChunksPartition ==
    (pc = "close" /\ tweets_collected # <<>>) =>
        /\ written # <<>>
        /\ \A n \in 1..Len(written) :
             /\ written[n].file_number = n
             /\ Len(written[n].chunk) = IF n < Len(written) THEN tweets_per_file
                                        ELSE Len(tweets_collected) - (n - 1) * tweets_per_file
             /\ Len(written[n].chunk) \in 1..tweets_per_file
             /\ written[n].filename \in DOMAIN files
             /\ PostUrlsIn(files[written[n].filename])
                    = [q \in 1..Len(written[n].chunk) |-> written[n].chunk[q].url]
        /\ Concat([n \in 1..Len(written) |-> written[n].chunk]) = tweets_collected

\* C5 witness: three posts were written two to a file.
C5_Witness ==
    /\ pc = "close"
    /\ tweets_per_file = 2 /\ Len(tweets_collected) = 3 /\ Len(written) = 2
    /\ Len(written[2].chunk) = 1

\* the save steps, and the list being the one the previous call wrote
SaveStep == pc \in {"checkpoint", "final_save"}
SameListAsWritten ==
    /\ written # <<>>
    /\ Concat([n \in 1..Len(written) |-> written[n].chunk]) = tweets_collected

\* C6 as stated: a second _save_to_markdown on the list the previous call
\* wrote leaves the same files with the same contents.
C6_Original == [][(SaveStep /\ SameListAsWritten) => files' = files]_vars

\* a file without its "Exported on" line
WithoutStamp(content) == SelectSeq(content, LAMBDA line : line[1] # "exported")

\* C6 amended: the second call leaves the same set of files, and contents
\* that differ at most in the "Exported on" line; they are identical when
\* both calls read the same clock value.
C6_Amended ==
    [][(SaveStep /\ SameListAsWritten) =>
        /\ DOMAIN files' = DOMAIN files
        /\ tweets_collected' = tweets_collected
        /\ \A fn \in DOMAIN files : WithoutStamp(files'[fn]) = WithoutStamp(files[fn])
        /\ now' = now => files' = files]_vars

\* C6 witness: a list that a checkpoint wrote when the count reached
\* CheckpointEvery was written again, unchanged, at a later clock value.
C6_Witness ==
    /\ pc = "close" /\ now = MaxClock
    /\ Len(tweets_collected) = CheckpointEvery
    /\ SameListAsWritten

\* the image lines of the posts themselves in a file
IsImageLine(line) == line[1] \in {"image", "image_local", "image_failed"} /\ ~line[2]

\* the (id, url) of the images of the posts of a chunk, in order
ImagesOf(chunk) ==
    Concat([q \in 1..Len(chunk) |->
               [j \in 1..Len(chunk[q].images) |-> <<chunk[q].id, chunk[q].images[j]>>]])

\* C8: with images included and downloaded locally, each file has one image
\* line per image of its posts, in image order; the line names the local copy
\* or the remote URL, and an image whose download left no local copy has the
\* line with its remote URL.
C8_ImageFallback ==
    (pc = "close" /\ include_images /\ download_images_locally) =>
        \A n \in 1..Len(written) :
            LET lines == SelectSeq(files[written[n].filename], IsImageLine)
                images == ImagesOf(written[n].chunk)
            IN  /\ Len(lines) = Len(images)
                /\ \A k \in 1..Len(images) :
                     LET local == LocalFilename(images[k][1], images[k][2], FALSE)
                     IN  /\ \/ lines[k] = <<"image_failed", FALSE, images[k][2]>>
                            \/ lines[k] = <<"image_local", FALSE, local>>
                         /\ local \notin image_files
                                => lines[k] = <<"image_failed", FALSE, images[k][2]>>

\* C8 witness: of the two images of post 1 the first was fetched and the
\* second was not, and the file was written.
C8_Witness ==
    /\ pc = "close" /\ include_images /\ download_images_locally
    /\ \E k \in 1..Len(tweets_collected) :
         /\ tweets_collected[k].id = <<1>>
         /\ Len(tweets_collected[k].images) = 2
    /\ LocalFilename(<<1>>, HighQuality(IMG_A), FALSE) \in image_files
    /\ LocalFilename(<<1>>, IMG_B, FALSE) \notin image_files

\* "2024-01-01", "2024-01-02", "2024-01-03"
D1 == <<50,48,50,52,45,48,49,45,48,49>>
D2 == <<50,48,50,52,45,48,49,45,48,50>>
D3 == <<50,48,50,52,45,48,49,45,48,51>>

TimestampsOf(tweets) == [k \in 1..Len(tweets) |-> tweets[k].timestamp]
HasLine(content, line) == \E k \in 1..Len(content) : content[k] = line
HasTag(content, tag) == \E k \in 1..Len(content) : content[k][1] = tag

\* C9: three posts collected with the timestamps of 2024-01-03, 2024-01-01
\* and 2024-01-02, in this order, and tweets_per_file = 2: the call writes two
\* files, the first with the posts of 01-03 and 01-02, the second with the
\* post of 01-01; the first alone has the metadata, total 3 and range
\* 2024-01-01 to 2024-01-03.
C9_EndToEnd ==
    [][(pc = "final_save" /\ tweets_per_file = 2
        /\ TimestampsOf(tweets_collected) = <<T3, T1, T2>>) =>
        /\ Len(written') = 2
        /\ DOMAIN files' = {<<<<0, 0, 1>>, D3, D2>>, <<<<0, 0, 2>>, D1, D1>>}
        /\ written'[1].filename = <<<<0, 0, 1>>, D3, D2>>
        /\ written'[2].filename = <<<<0, 0, 2>>, D1, D1>>
        /\ PostUrlsIn(files'[written'[1].filename])
               = <<tweets_collected[1].url, tweets_collected[3].url>>
        /\ PostUrlsIn(files'[written'[2].filename]) = <<tweets_collected[2].url>>
        /\ HasLine(files'[written'[1].filename], <<"total", 3>>)
        /\ HasLine(files'[written'[1].filename], <<"range", D1, D3>>)
        /\ ~HasTag(files'[written'[2].filename], "total")
        /\ ~HasTag(files'[written'[2].filename], "range")]_vars

\* C9 witness: the run collected the posts of 01-03, 01-01 and 01-02 and
\* wrote them two to a file.
C9_Witness ==
    /\ pc = "close" /\ tweets_per_file = 2
    /\ TimestampsOf(tweets_collected) = <<T3, T2, T1>>
    /\ Len(written) = 2

\* C10 as stated: an iteration ends with a checkpoint exactly when it took
\* the collected count across a multiple of CheckpointEvery.
C10_Original ==
    [][pc = "scroll" =>
        ((pc' = "checkpoint") <=>
            ((Len(tweets_collected) - new_count) \div CheckpointEvery
                 < Len(tweets_collected) \div CheckpointEvery))]_vars

\* the chunk index a filename carries (line 364)
IndexOf(filename) == filename[1]

\* C11 as stated: once _save_to_markdown has run, the output directory holds
\* exactly one file per chunk index of the list of the latest call, with the
\* content that call derived; no file of an earlier call with the same chunk
\* index is left beside it.
C11_Original ==
    written # <<>> =>
        /\ DOMAIN files = {written[n].filename : n \in 1..Len(written)}
        /\ \A f, g \in DOMAIN files : IndexOf(f) = IndexOf(g) => f = g
        /\ \A n \in 1..Len(written) :
             PostUrlsIn(files[written[n].filename])
                 = [q \in 1..Len(written[n].chunk) |-> written[n].chunk[q].url]

\* C12 as stated: every record _parse_tweet_element returns has a non-empty
\* id, and a node without a permalink, or with a permalink that has nothing
\* between '/status/' and the end of the path or the '?', yields no record.
C12_Original ==
    pc = "parsed" =>
        /\ parsed # <<>> => parsed[1].id # <<>>
        /\ NodeId(node, 1) = <<>> => parsed = <<>>

\* s holds no value twice
NoDuplicates(s) == \A i, j \in 1..Len(s) : s[i] = s[j] => i = j

\* C13 as stated: in every record _parse_tweet_element returns, neither
\* images nor videos holds the same URL twice.
C13_Original ==
    (pc = "parsed" /\ parsed # <<>>) =>
        /\ NoDuplicates(parsed[1].images)
        /\ NoDuplicates(parsed[1].videos)

\* a node the parser turns into a record: it has a permalink and no driver
\* call on it raises
ParsesWell(article) == ~article[1].raises /\ NodeLinks(article, 1) # <<>>

\* C14: a pass over a page on which some nodes fail to parse goes on to the
\* scroll or to the end of the loop; the collected list grows, at its end,
\* by the records of the nodes that parse and are not yet seen, in the page
\* order of their first occurrence, and by nothing else.
C14_BadNodeSkipped ==
    [][pc = "extract" =>
        LET good == SelectSeq(tweet_elements, ParsesWell)
            ids == [i \in 1..Len(good) |-> NodeId(good[i], 1)]
            after == tweets_collected'
        IN  /\ pc' \in {"scroll", "final_save"}
            /\ SubSeq(after, 1, Len(tweets_collected)) = tweets_collected
            /\ IdsOf(after) = IdsOf(tweets_collected) \cup Range(ids)
            /\ \A k \in (Len(tweets_collected) + 1)..Len(after) :
                 \E i \in 1..Len(good) : <<after[k]>> = ParseTweetElement(good[i], 1)
            /\ \A i, j \in 1..Len(good) :
                 (/\ i < j /\ {ids[i], ids[j]} \cap tweets_seen = {}
                  /\ \A m \in 1..(j - 1) : ids[m] # ids[j])
                     => PositionOf(after, ids[i]) < PositionOf(after, ids[j])]_vars

\* C14 witness: a pass over a page holding post 1, a node that raises and
\* post 2 collected posts 1 and 2 in this order.
C14_Witness ==
    /\ pc = "scroll" /\ new_count = 2
    /\ Len(tweet_elements) = 3
    /\ ParsesWell(tweet_elements[1])
    /\ tweet_elements[2][1].raises
    /\ ParsesWell(tweet_elements[3])
    /\ tweets_collected[Len(tweets_collected) - 1].id = NodeId(tweet_elements[1], 1)
    /\ tweets_collected[Len(tweets_collected)].id = NodeId(tweet_elements[3], 1)

\* the steps of start() inside the try block
InTry(p) == p \in {"login", "navigate", "extract", "scroll", "checkpoint", "final_save"}

\* C15: a failure of a step of start() is followed by the closing of the
\* browser and then leaves start() as an exception, never as a success; a
\* run without failure closes the browser too; the browser is closed in no
\* other step and nothing follows the closing; no step removes a file
\* already written.
C15_CloseThenPropagate ==
    [][/\ pc' = "failed" => (InTry(pc) /\ page_url' # "closed")
       /\ pc = "failed" => (pc' = "raised" /\ page_url' = "closed" /\ files' = files)
       /\ pc = "close" => (pc' = "done" /\ page_url' = "closed")
       /\ page_url' = "closed" => (pc \in {"failed", "close"} /\ page_url # "closed")
       /\ pc' = "done" => pc = "close"
       /\ pc' = "raised" => pc = "failed"
       /\ pc \notin {"done", "raised"}
       /\ DOMAIN files \subseteq DOMAIN files']_vars

\* C15 witness: after the checkpoint at CheckpointEvery posts a pass added a
\* post, the scroll raised, the browser was closed and the exception left
\* start(); the files of the checkpoint are there.
C15_Witness ==
    /\ pc = "raised" /\ page_url = "closed"
    /\ Len(tweets_collected) = CheckpointEvery + 1
    /\ no_new_tweets_count = 0
    /\ Len(written) = 5
    /\ \A n \in 1..Len(written) : written[n].filename \in DOMAIN files

\* C16 as stated: a call of _save_to_markdown, the checkpoint of the loop
\* included, leaves tweets_collected as it was, in content and in order.
C16_Original == [][SaveStep => tweets_collected' = tweets_collected]_vars

\* C17: an extraction pass that adds no post increments the no-progress
\* counter by 1, one that adds posts resets it to 0; the scroll step that
\* follows increments it by 1 when the height read equals the height seen
\* before, and leaves it otherwise; no other step changes the counter.
C17_CounterUpdates ==
    [][/\ pc = "extract" =>
            no_new_tweets_count' = IF Len(tweets_collected') = Len(tweets_collected)
                                   THEN no_new_tweets_count + 1 ELSE 0
       /\ pc = "scroll" =>
            no_new_tweets_count' = IF last_height' = last_height
                                   THEN no_new_tweets_count + 1 ELSE no_new_tweets_count
       /\ pc \notin {"extract", "scroll"} => no_new_tweets_count' = no_new_tweets_count
       /\ no_new_tweets_count' <= no_new_tweets_count + 1]_vars

\* C17 witness: with a threshold of 2, a pass that added nothing and a scroll
\* that read the same height took the counter to 2 within one iteration.
C17_Witness ==
    /\ pc = "extract" /\ scroll_retries = 2
    /\ new_count = 0 /\ no_new_tweets_count = 2
    /\ last_height = 1

\* the path segment that follows '/status/' in a permalink, without a query
\* string
StatusSegment(tweet_url) ==
    BeforeFirst(BeforeFirst(AfterLast(tweet_url, ST), QMARK), SLASH)

\* C18 as stated: the id of a record is the single path segment that follows
\* '/status/' in the permalink of the node, the query string removed.
C18_Original ==
    (pc = "parsed" /\ parsed # <<>>) =>
        parsed[1].id = StatusSegment(Head(NodeLinks(node, 1)))

\* C19 as stated: with images included and downloaded locally, an image
\* whose fetch returned an OK response, its bytes being persisted, is
\* referenced in the file by its local path ./images/<post id>_<basename>.
C19_Original ==
    (pc = "close" /\ include_images /\ download_images_locally) =>
        \A n \in 1..Len(written) :
            LET lines == SelectSeq(files[written[n].filename], IsImageLine)
                images == ImagesOf(written[n].chunk)
            IN  \A k \in 1..Len(images) :
                    LET local == LocalFilename(images[k][1], images[k][2], FALSE)
                    IN  local \in image_files => lines[k] = <<"image_local", FALSE, local>>

\* C20 as stated, for the last two iterations: with scroll_retries >= 1 the
\* iteration that ends the loop added no post, and with scroll_retries >= 2
\* there was an iteration before it and that one added no post either
\* (at the top of the loop new_count still holds the count of the iteration
\* before).
C20_Original ==
    [][(pc = "extract" /\ pc' = "final_save" /\ scroll_retries >= 1) =>
        /\ new_count' = 0
        /\ scroll_retries >= 2 => (last_height # 0 /\ new_count = 0)]_vars

\* C21: a pass that added a post resets the counter and is followed by the
\* scroll, and the scroll by another pass (after the checkpoint when one is
\* due); the loop is left only by a pass that added no post.
C21_ExitOnlyWithoutNew ==
    [][/\ (pc = "extract" /\ Len(tweets_collected') > Len(tweets_collected))
            => (pc' = "scroll" /\ no_new_tweets_count' = 0 /\ new_count' > 0)
       /\ pc = "scroll" => pc' \in {"extract", "checkpoint"}
       /\ pc = "checkpoint" => pc' = "extract"
       /\ pc' = "final_save"
            => (pc = "extract" /\ new_count' = 0 /\ tweets_collected' = tweets_collected)]_vars

\* C21 witness: with scroll_retries = 0 a pass added posts and the loop went
\* on to the scroll.
C21_Witness ==
    /\ pc = "scroll" /\ scroll_retries = 0
    /\ new_count > 0 /\ no_new_tweets_count = 0
    /\ last_height # 0

\* C22: in a run without failing or hanging driver calls over a feed of
\* finitely many posts the loop is left eventually, for every scroll_retries
\* >= 0 and all height readings.  A pass without new ids raises the counter
\* by one and no scroll lowers it, and the loop goes on after such a pass
\* only while the counter is below scroll_retries: so it is left by the
\* scroll_retries-th consecutive pass without new ids at the latest (by the
\* first one when scroll_retries is 0).
C22_Terminates ==
    /\ <>AfterLoop(pc)
    /\ [](pc = "scroll" /\ new_count = 0 => no_new_tweets_count < scroll_retries)
    /\ [][/\ (pc = "extract" /\ tweets_collected' = tweets_collected)
                => no_new_tweets_count' = no_new_tweets_count + 1
          /\ pc \in {"scroll", "checkpoint"} => no_new_tweets_count' >= no_new_tweets_count]_vars

\* C22 witness: with scroll_retries = 2 the whole feed was collected and a
\* pass without new ids, the counter at 2, left the loop.
C22_Witness ==
    /\ pc = "final_save" /\ scroll_retries = 2
    /\ new_count = 0 /\ no_new_tweets_count = 2
    /\ IdsOf(tweets_collected) = {<<1>>, <<2>>, <<3>>}

\* C23 as stated: a checkpoint inside the loop leaves the page on the
\* bookmarks timeline, and leaves the seen-set, the no-progress counter and
\* the last height as they were.
C23_Original ==
    [][pc = "checkpoint" =>
        /\ page_url' = "bookmarks"
        /\ tweets_seen' = tweets_seen
        /\ no_new_tweets_count' = no_new_tweets_count
        /\ last_height' = last_height]_vars

====
